---- MODULE Spec2Model ----
(***************************************************************************)
(* The CSTR kinetics notebook (examples/kinetics_cstr.ipynb) as a state    *)
(* machine: one action per code cell, executed top to bottom.  Symbolic    *)
(* expressions are syntax trees; numbers are exact: a value is a finite    *)
(* sum  q_1*e^(n_1) + ... + q_m*e^(n_m)  with rational q_i and distinct    *)
(* integer n_i, which is a canonical form because the powers e^n are       *)
(* linearly independent over the rationals.                                *)
(***************************************************************************)
EXTENDS Integers, Sequences, FiniteSets, TLC

\* ------------------------------------------------------------------ bounds
\* largest rate constant / feed ratio value tried
MaxRate == 1
\* largest concentration value tried (initial and feed concentrations)
MaxConc == 1
\* last output time point of an integration: xout = 0, 1, ..., MaxTime
MaxTime == 2

RateVals == 0 .. MaxRate
ConcVals == 0 .. MaxConc

\* --------------------------------------------------------------- rationals
RECURSIVE GCD(_, _)
GCD(a, b) == IF b = 0 THEN a ELSE GCD(b, a % b)

Abs(n) == IF n < 0 THEN 0 - n ELSE n

\* the reduced fraction n/d (d # 0), denominator positive
Rat(n, d) ==
    LET g == GCD(Abs(n), Abs(d))
        s == IF d < 0 THEN 0 - 1 ELSE 1
    IN  <<(s * n) \div g, (s * d) \div g>>

RatAdd(p, q) == Rat(p[1] * q[2] + q[1] * p[2], p[2] * q[2])
RatMul(p, q) == Rat(p[1] * q[1], p[2] * q[2])
RatInv(p) == Rat(p[2], p[1])
RatZero == <<0, 1>>

\* ------------------------------------------------------------------ values
\* A value is [fin, v]: fin = FALSE is a float that is not a finite number
\* (nan or +-inf, what x/0 gives); otherwise v maps each exponent n of the
\* sum to its non-zero rational coefficient.
NotFinite == [fin |-> FALSE, v |-> <<>>]
Fin(f) == [fin |-> TRUE, v |-> f]

Coef(f, n) == IF n \in DOMAIN f THEN f[n] ELSE RatZero

\* the canonical form of the sum with exponents in D and coefficients c[n]
Canon(D, c) == [n \in {m \in D : c[m][1] # 0} |-> c[n]]

VRat(q) == Fin(Canon({0}, [n \in {0} |-> q]))
VInt(i) == VRat(<<i, 1>>)
\* e^n for an integer n
VExpInt(n) == Fin([m \in {n} |-> <<1, 1>>])

VAdd(x, y) ==
    IF ~x.fin \/ ~y.fin THEN NotFinite
    ELSE LET D == DOMAIN x.v \cup DOMAIN y.v
         IN  Fin(Canon(D, [n \in D |-> RatAdd(Coef(x.v, n), Coef(y.v, n))]))

RECURSIVE RatSum(_, _, _)
\* the sum over a in S of f[a] * g[n - a]
RatSum(S, f, g) ==
    IF S = {} THEN RatZero
    ELSE LET a == CHOOSE a \in S : TRUE
         IN  RatAdd(RatMul(f[a[1]], g[a[2]]), RatSum(S \ {a}, f, g))

VMul(x, y) ==
    IF ~x.fin \/ ~y.fin THEN NotFinite
    ELSE LET D == {a + b : a \in DOMAIN x.v, b \in DOMAIN y.v}
             P(n) == {<<a, n - a>> : a \in {a \in DOMAIN x.v : n - a \in DOMAIN y.v}}
         IN  Fin(Canon(D, [n \in D |-> RatSum(P(n), x.v, y.v)]))

VNeg(x) == VMul(VInt(0 - 1), x)
VSub(x, y) == VAdd(x, VNeg(y))

\* x / y for a divisor of one term q*e^b (every divisor of the notebook's
\* expressions is a rational); division by zero is not a finite number
VDiv(x, y) ==
    IF ~x.fin \/ ~y.fin \/ DOMAIN y.v = {} THEN NotFinite
    ELSE LET b == CHOOSE b \in DOMAIN y.v : Cardinality(DOMAIN y.v) = 1
         IN  VMul(x, Fin([m \in {0 - b} |-> RatInv(y.v[b])]))

\* exp(x) for an integer x
VExp(x) ==
    IF ~x.fin THEN NotFinite
    ELSE IF DOMAIN x.v = {} THEN VInt(1)
    ELSE LET q == CHOOSE q \in {x.v[0]} : DOMAIN x.v = {0} /\ q[2] = 1
         IN  VExpInt(q[1])

\* ------------------------------------------------------------- expressions
\* A symbolic expression is a tree of nodes: [op |-> "num", val] (an
\* integer), [op |-> "sym", name] (a Symbol), [op |-> "dep", name] (the
\* dependent variable of the species called name), and [op, args] for "add",
\* "mul", "div", "exp".
Num(i) == [op |-> "num", val |-> i]
Symbol(s) == [op |-> "sym", name |-> s]
Dep(s) == [op |-> "dep", name |-> s]
Node(o, as) == [op |-> o, args |-> as]

IsNum(x, i) == x.op = "num" /\ x.val = i

\* The constructors evaluate as the symbolic backend does when it builds an
\* expression: numbers fold, x + 0 = x, 1*x = x, 0*x = 0, c*(d*x) = (c*d)*x,
\* a number is distributed over a sum, 0/x = 0, x/1 = x, exp(0) = 1.
Add(a, b) ==
    IF a.op = "num" /\ b.op = "num" THEN Num(a.val + b.val)
    ELSE IF IsNum(a, 0) THEN b
    ELSE IF IsNum(b, 0) THEN a
    ELSE Node("add", <<a, b>>)

RECURSIVE Mul(_, _)
Mul(a, b) ==
    IF a.op = "num" /\ b.op = "num" THEN Num(a.val * b.val)
    ELSE IF IsNum(a, 0) \/ IsNum(b, 0) THEN Num(0)
    ELSE IF IsNum(a, 1) THEN b
    ELSE IF IsNum(b, 1) THEN a
    ELSE IF a.op = "num" /\ b.op = "mul" /\ b.args[1].op = "num"
    THEN Mul(Num(a.val * b.args[1].val), b.args[2])
    ELSE IF a.op = "num" /\ b.op = "add"
    THEN Add(Mul(a, b.args[1]), Mul(a, b.args[2]))
    ELSE Node("mul", <<a, b>>)

Neg(a) == Mul(Num(0 - 1), a)
Sub(a, b) == Add(a, Neg(b))
Div(a, b) == IF IsNum(b, 1) \/ IsNum(a, 0) THEN a ELSE Node("div", <<a, b>>)
Exp(a) == IF IsNum(a, 0) THEN Num(1) ELSE Node("exp", <<a>>)

\* expr.subs(s, r): every Symbol called s replaced by r, rebuilt bottom-up
RECURSIVE Subs(_, _, _)
Subs(x, s, r) ==
    CASE x.op = "sym" -> IF x.name = s THEN r ELSE x
      [] x.op = "add" -> Add(Subs(x.args[1], s, r), Subs(x.args[2], s, r))
      [] x.op = "mul" -> Mul(Subs(x.args[1], s, r), Subs(x.args[2], s, r))
      [] x.op = "div" -> Div(Subs(x.args[1], s, r), Subs(x.args[2], s, r))
      [] x.op = "exp" -> Exp(Subs(x.args[1], s, r))
      [] OTHER -> x

\* the derivative of x with respect to the Symbol called s (quotients of the
\* notebook have divisors free of s)
RECURSIVE Diff(_, _)
Diff(x, s) ==
    CASE x.op = "sym" -> IF x.name = s THEN Num(1) ELSE Num(0)
      [] x.op = "add" -> Add(Diff(x.args[1], s), Diff(x.args[2], s))
      [] x.op = "mul" -> Add(Mul(Diff(x.args[1], s), x.args[2]),
                             Mul(x.args[1], Diff(x.args[2], s)))
      [] x.op = "div" -> Div(Diff(x.args[1], s), x.args[2])
      [] x.op = "exp" -> Mul(Diff(x.args[1], s), x)
      [] OTHER -> Num(0)

\* The numeric value of x: env.sym gives each Symbol's value and env.dep each
\* dependent variable's.
RECURSIVE Eval(_, _)
Eval(x, env) ==
    CASE x.op = "num" -> VInt(x.val)
      [] x.op = "sym" -> VInt(env.sym[x.name])
      [] x.op = "dep" -> env.dep[x.name]
      [] x.op = "add" -> VAdd(Eval(x.args[1], env), Eval(x.args[2], env))
      [] x.op = "mul" -> VMul(Eval(x.args[1], env), Eval(x.args[2], env))
      [] x.op = "div" -> VDiv(Eval(x.args[1], env), Eval(x.args[2], env))
      [] x.op = "exp" -> VExp(Eval(x.args[1], env))

\* the signed terms of a sum: <<sign, term>> for every summand of x
RECURSIVE Terms(_, _)
Terms(x, sign) ==
    IF x.op = "add" THEN Terms(x.args[1], sign) \o Terms(x.args[2], sign)
    ELSE IF x.op = "mul" /\ IsNum(x.args[1], 0 - 1) THEN Terms(x.args[2], 0 - sign)
    ELSE <<[sign |-> sign, term |-> x]>>

RECURSIVE Cancel(_)
\* drops every pair  +u, -u  of a list of signed terms
Cancel(ts) ==
    IF ts = <<>> THEN <<>>
    ELSE LET h == Head(ts)
             rest == Tail(ts)
             opp == {i \in 1 .. Len(rest) :
                        rest[i].term = h.term /\ rest[i].sign = 0 - h.sign}
         IN  IF opp = {} THEN <<h>> \o Cancel(rest)
             ELSE LET j == CHOOSE i \in opp : \A i2 \in opp : i <= i2
                  IN  Cancel([i \in 1 .. Len(rest) - 1 |->
                                 IF i < j THEN rest[i] ELSE rest[i + 1]])

RECURSIVE SumTerms(_)
SumTerms(ts) ==
    IF ts = <<>> THEN Num(0)
    ELSE Add(SumTerms(SubSeq(ts, 1, Len(ts) - 1)),
             IF ts[Len(ts)].sign = 1 THEN ts[Len(ts)].term ELSE Neg(ts[Len(ts)].term))

\* expr.simplify(): the sum with its cancelling terms removed
Simplify(x) == SumTerms(Cancel(Terms(x, 1)))

\* ---------------------------------------------------------------- helpers
Range(s) == {s[i] : i \in DOMAIN s}
\* list.index(x): the first position of x
Index(s, x) == CHOOSE i \in DOMAIN s : s[i] = x /\ \A j \in DOMAIN s : s[j] = x => i <= j
Min3(a, b, c) == IF a <= b /\ a <= c THEN a ELSE IF b <= c THEN b ELSE c
Reverse(s) == [i \in 1 .. Len(s) |-> s[Len(s) + 1 - i]]
NoDuplicates(s) == \A i, j \in DOMAIN s : s[i] = s[j] => i = j

\* ------------------------------------------------- the reaction system
Species == {"A", "B"}
\* the orders in which the reaction system may list its substances
SpeciesOrders == {<<"A", "B">>, <<"B", "A">>}
\* rate-constant names tried: the notebook's 'k', and 'f', which is also the
\* name of the feed-ratio Symbol of the manual construction
RateNames == {"k", "f"}

\* ReactionSystem.from_string("A -> B; '<param>'"): one unary irreversible
\* reaction and the substances it references
ReactionSystemFromString(param, order) ==
    [reac |-> "A", prod |-> "B", param |-> param, substances |-> order]

\* --------------------------------------------------------- ODE systems
\* An ODE system: species names, one dependent variable and one expression
\* per species, parameter Symbols and their names.
NoSys == [names |-> <<>>, dep |-> <<>>, exprs |-> <<>>, params |-> <<>>, param_names |-> <<>>]

\* mass-action rate of the reaction: rate constant times reactant concentration
RateExpr(rs) == Mul(Symbol(rs.param), Dep(rs.reac))

\* signed sum of the rate over the sides of the reaction the species is on
SpeciesExpr(rs, s) ==
    Add(IF s = rs.reac THEN Neg(RateExpr(rs)) ELSE Num(0),
        IF s = rs.prod THEN RateExpr(rs) ELSE Num(0))

\* names generated by the builder's CSTR mode
FeedRatioName == "feedratio"
FeedConcName == [s \in Species |-> IF s = "A" THEN "fc_A" ELSE "fc_B"]

\* get_odesys(rsys, include_params=False, cstr=...): [err, sys, extra]
get_odesys(rs, cstrMode) ==
    LET names == rs.substances
        n == Len(names)
        fcNames == [i \in 1 .. n |-> FeedConcName[names[i]]]
        base == [i \in 1 .. n |-> SpeciesExpr(rs, names[i])]
        aug == [i \in 1 .. n |->
                   Add(Sub(base[i], Mul(Symbol(FeedRatioName), Dep(names[i]))),
                       Mul(Symbol(FeedRatioName), Symbol(fcNames[i])))]
        pnames == IF cstrMode THEN <<rs.param, FeedRatioName>> \o fcNames
                  ELSE <<rs.param>>
        clash == cstrMode /\ rs.param \in {FeedRatioName} \cup Range(fcNames)
        fc == [s \in Range(names) |-> FeedConcName[s]]
    IN  IF clash
        THEN [err |-> "DuplicateParameterName", sys |-> NoSys,
              extra |-> [fr |-> "", fc |-> <<>>]]
        ELSE [err |-> "",
              sys |-> [names |-> names,
                       dep |-> [i \in 1 .. n |-> Dep(names[i])],
                       exprs |-> IF cstrMode THEN aug ELSE base,
                       params |-> [i \in 1 .. Len(pnames) |-> Symbol(pnames[i])],
                       param_names |-> pnames],
              extra |-> [fr |-> IF cstrMode THEN FeedRatioName ELSE "",
                         fc |-> IF cstrMode THEN fc ELSE <<>>]]

\* ---------------------------------------- the notebook's Symbols (line 62)
t == Symbol("t")
c1 == Symbol("c1")
c2 == Symbol("c2")
IA == Symbol("I_A")
IB == Symbol("I_B")
f == Symbol("f")
fc_A == Symbol("phi_A")
fc_B == Symbol("phi_B")

newp == <<f, fc_A, fc_B>>
c_feed == [s \in Species |-> IF s = "A" THEN fc_A ELSE fc_B]

\* slips of the manual construction: the other species' feed
\* concentration; the outflow term forgotten
CstrExpr_OtherFeed(name, dep, expr) ==
    Add(Sub(expr, Mul(f, dep)), Mul(f, c_feed[IF name = "A" THEN "B" ELSE "A"]))

CstrExpr_NoOutflow(name, dep, expr) == Add(expr, Mul(f, c_feed[name]))

\* one right-hand side of the manual construction: expr - f*dep + f*c_feed[name]
CstrExpr(name, dep, expr) == Add(Sub(expr, Mul(f, dep)), Mul(f, c_feed[name]))

\* slip: the last species is left out
CstrZip_DropsLast(sys) ==
    [i \in 1 .. Min3(Len(sys.names), Len(sys.dep), Len(sys.exprs)) - 1 |->
        [dep |-> sys.dep[i],
         expr |-> Add(Sub(sys.exprs[i], Mul(f, sys.dep[i])), Mul(f, c_feed[sys.names[i]]))]]

\* the list comprehension over zip(odesys.names, odesys.dep, odesys.exprs)
CstrZip(sys) ==
    [i \in 1 .. Min3(Len(sys.names), Len(sys.dep), Len(sys.exprs)) |->
        [dep |-> sys.dep[i], expr |-> CstrExpr(sys.names[i], sys.dep[i], sys.exprs[i])]]

CstrParams(sys) == sys.params \o newp

\* slip: the new names are put before the reaction system's
CstrParamNames_FeedFirst(sys) == [i \in 1 .. Len(newp) |-> newp[i].name] \o sys.param_names

CstrParamNames(sys) == sys.param_names \o [i \in 1 .. Len(newp) |-> newp[i].name]

\* cstr = SymbolicSys([...], params=..., names=..., param_names=...): the
\* constructor keeps what it is given
ManualCstr(sys) ==
    LET z == CstrZip(sys)
    IN  [names |-> sys.names,
         dep |-> [i \in 1 .. Len(z) |-> z[i].dep],
         exprs |-> [i \in 1 .. Len(z) |-> z[i].expr],
         params |-> CstrParams(sys),
         param_names |-> CstrParamNames(sys)]

\* ------------------------------------------------------ the integrator
NoResult == [err |-> "unset", odesys |-> NoSys, xout |-> <<>>, yout0 |-> <<>>, params |-> <<>>]

\* odesys.integrate(xend, y0, params) with dep_by_name and par_by_name: the
\* mappings must cover the species and the declared parameters.  xout is
\* 0, 1, ..., xend; yout0 is the first row of yout (the initial values in
\* column order); the later rows are the external solver's output and are
\* not part of the model.
integrate(sys, xend, y0, params) ==
    IF DOMAIN y0 # Range(sys.names)
    THEN [NoResult EXCEPT !.err = "IncompleteInitialConditions"]
    ELSE IF ~(Range(sys.param_names) \subseteq DOMAIN params)
    THEN [NoResult EXCEPT !.err = "IncompleteParameters"]
    ELSE [err |-> "",
          odesys |-> sys,
          xout |-> [i \in 1 .. xend + 1 |-> i - 1],
          yout0 |-> [i \in 1 .. Len(sys.names) |-> y0[sys.names[i]]],
          params |-> [i \in 1 .. Len(sys.param_names) |-> params[sys.param_names[i]]]]

\* result.named_dep(name)[0]
named_dep0(result, name) == result.yout0[Index(result.odesys.names, name)]
\* result.named_param(name)
named_param(result, name) == result.params[Index(result.odesys.param_names, name)]

\* ------------------------------------------- the closed-form solution
\* slips of the closed form: the decay of A at rate f instead of f + k; the
\* c1 term of B added instead of subtracted
ExprA_FeedRateOnly(ksym) ==
    Add(Div(Mul(fc_A, f), Add(f, ksym)),
        Mul(c1, Exp(Mul(Neg(t), f))))

ExprB_SignSlip(ksym) ==
    Add(Add(Div(Add(Mul(fc_A, ksym), Mul(fc_B, Add(f, ksym))), Add(f, ksym)),
            Mul(Mul(c1, Exp(Mul(Neg(f), t))), Sub(Exp(Mul(Neg(t), ksym)), Num(1)))),
        Mul(c2, Exp(Mul(Neg(f), t))))

\* exprs (lines 125-128), with k the Symbol bound by line 123
ExprA(ksym) ==
    Add(Div(Mul(fc_A, f), Add(f, ksym)),
        Mul(c1, Exp(Mul(Neg(t), Add(f, ksym)))))

ExprB(ksym) ==
    Add(Sub(Div(Add(Mul(fc_A, ksym), Mul(fc_B, Add(f, ksym))), Add(f, ksym)),
            Mul(Mul(c1, Exp(Mul(Neg(f), t))), Sub(Exp(Mul(Neg(t), ksym)), Num(1)))),
        Mul(c2, Exp(Mul(Neg(f), t))))

Exprs(ksym) == <<ExprA(ksym), ExprB(ksym)>>

\* [expr.subs(t, 0) for expr in exprs]
SubsT0(es) == [i \in 1 .. Len(es) |-> Subs(es[i], "t", Num(0))]

\* solve([e1, e2], (u1, u2)) for equations linear in the unknowns: the
\* coefficients are the derivatives, the constant terms the equations at
\* u1 = u2 = 0, the solution Cramer's rule
solve(eqs, u1, u2) ==
    LET a(i) == Subs(Subs(eqs[i], u1, Num(0)), u2, Num(0))
        b(i, u) == Diff(eqs[i], u)
        det == Sub(Mul(b(1, u1), b(2, u2)), Mul(b(1, u2), b(2, u1)))
    IN  [u1v |-> Div(Sub(Mul(Neg(a(1)), b(2, u2)), Mul(b(1, u2), Neg(a(2)))), det),
         u2v |-> Div(Sub(Mul(b(1, u1), Neg(a(2))), Mul(Neg(a(1)), b(2, u1))), det)]

\* slip: the initial values zipped in the other order
SolveConstants_Swapped(es0) ==
    solve(<<Sub(es0[1], IB), Sub(es0[2], IA)>>, "c1", "c2")

\* sol = solve([expr - c0 for expr, c0 in zip(exprs0, (IA, IB))], (c1, c2))
SolveConstants(es0) ==
    solve(<<Sub(es0[1], IA), Sub(es0[2], IB)>>, "c1", "c2")

\* [expr.subs(sol) for expr in exprs]
SubsSol(es, sl) == [i \in 1 .. Len(es) |-> Subs(Subs(es[i], "c1", sl.u1v), "c2", sl.u2v)]

\* [expr.subs(t, 0).simplify() for expr in exprs2]
SimplifyT0(es) == [i \in 1 .. Len(es) |-> Simplify(Subs(es[i], "t", Num(0)))]

\* the argument names of lambdify([t, IA, IB, k, f, fc_A, fc_B], exprs2)
CbArgs(ksym) == <<t.name, IA.name, IB.name, ksym.name, f.name, fc_A.name, fc_B.name>>

\* _cb(x, ...): the expressions at one time point x, the arguments bound
\* to the argument names by position
Cb(args, es, x, vals) ==
    LET all == <<x>> \o vals
        env == [sym |-> [n \in Range(args) |-> all[Index(args, n)]], dep |-> <<>>]
    IN  [i \in 1 .. Len(es) |-> Eval(es[i], env)]

\* analytic(x, c0, params): [err, cols]; cols[i][j] is expression i at
\* time point j.  pyfloat says the parameters are Python floats, for which
\* a division by zero raises; numpy scalars give nan or inf instead.
analytic(args, es, x, c0, params, pyfloat) ==
    IF ~({"A", "B"} \subseteq DOMAIN c0) \/
       ~({"k", "f", "phi_A", "phi_B"} \subseteq DOMAIN params)
    THEN [err |-> "KeyError", cols |-> <<>>]
    ELSE LET vals == <<c0["A"], c0["B"], params["k"], params["f"],
                       params["phi_A"], params["phi_B"]>>
             rows == [j \in 1 .. Len(x) |-> Cb(args, es, x[j], vals)]
             cols == [i \in 1 .. Len(es) |-> [j \in 1 .. Len(x) |-> rows[j][i]]]
         IN  IF pyfloat /\ \E j \in 1 .. Len(x) : \E i \in 1 .. Len(es) : ~rows[j][i].fin
             THEN [err |-> "ZeroDivisionError", cols |-> <<>>]
             ELSE [err |-> "", cols |-> cols]

\* np.array(cols).T[:, ::drctn]: one row per time point, the columns
\* reversed when drctn is -1
TransposeDir(cols, nt, drctn) ==
    [j \in 1 .. nt |->
        LET row == [i \in 1 .. Len(cols) |-> cols[i][j]]
        IN  IF drctn = 0 - 1 THEN Reverse(row) ELSE row]

\* slip: the columns are never reversed
Drctn_Forward(result) == 1

Drctn(result) == IF result.odesys.names[1] = "B" THEN 0 - 1 ELSE 1

\* the optional parameters argument: None, or a mapping
None == [given |-> FALSE, map |-> <<>>]
Given(m) == [given |-> TRUE, map |-> m]
\* Python's truth value of the argument: None and the empty dict are falsy
Truthy(parameters) == parameters.given /\ DOMAIN parameters.map # {}

\* get_ref(result, parameters=None): [err, y]
get_ref(args, es, result, parameters) ==
    LET c0 == [n \in Range(result.odesys.names) |-> named_dep0(result, n)]
        own == [n \in Range(result.odesys.param_names) |-> named_param(result, n)]
        ps == IF Truthy(parameters) THEN parameters.map ELSE own
        an == analytic(args, es, result.xout, c0, ps, Truthy(parameters))
    IN  IF an.err # "" THEN [err |-> an.err, y |-> <<>>]
        ELSE [err |-> "", y |-> TransposeDir(an.cols, Len(result.xout), Drctn(result))]

\* unary_irrev_cstr(t, k, r, p, fr, fp, fv): the library's closed form, the
\* code generated from exprs2 by lines 179-182 (fr, fp: feed concentrations
\* of reactant and product, fv: feed ratio, r, p: initial concentrations)
unary_irrev_cstr(x, kval, r, p, frv, fpv, fv) ==
    LET es == SubsSol(Exprs(Symbol("k")), SolveConstants(SubsT0(Exprs(Symbol("k")))))
        args == CbArgs(Symbol("k"))
        rows == [j \in 1 .. Len(x) |-> Cb(args, es, x[j], <<r, p, kval, fv, frv, fpv>>)]
    IN  [i \in 1 .. Len(es) |-> [j \in 1 .. Len(x) |-> rows[j][i]]]

\* get_ref2(result), with fr, fc = extra2['cstr_fr_fc']: [err, y]
get_ref2(result, fr, fc) ==
    LET pn == Range(result.odesys.param_names)
    IN  IF ~({"A", "B"} \subseteq DOMAIN fc) THEN [err |-> "KeyError", y |-> <<>>]
        ELSE IF ~({"k", fr, fc["A"], fc["B"]} \subseteq pn)
                \/ ~({"A", "B"} \subseteq Range(result.odesys.names))
        THEN [err |-> "ValueError", y |-> <<>>]
        ELSE [err |-> "",
              y |-> TransposeDir(
                        unary_irrev_cstr(result.xout,
                                         named_param(result, "k"),
                                         named_dep0(result, "A"),
                                         named_dep0(result, "B"),
                                         named_param(result, fc["A"]),
                                         named_param(result, fc["B"]),
                                         named_param(result, fr)),
                        Len(result.xout), Drctn(result))]

\* ------------------------------------------------------------------- state
VARIABLES
    pc,            \* the next code cell to run
    err,           \* the exception that stopped the run, "" while running
    rsys,          \* line 35
    odesys,        \* line 45
    cstr,          \* lines 65-75
    init_c, pars,  \* line 95
    res,           \* line 96
    k,             \* the Symbol k: line 62, rebound by line 123
    exprs,         \* lines 125-128
    exprs0,        \* line 139
    sol,           \* line 149
    exprs2,        \* line 159
    exprs2_0,      \* line 191
    cb,            \* line 201: the argument names of _cb
    ref_arg,       \* the parameters argument of the last get_ref(res, ...) call
    yref,          \* line 226: the value of the last get_ref(res, ...) call
    cstr2, extra2, \* line 263
    renamed_pars,  \* line 289
    res2,          \* line 290
    ref2,          \* line 291
    fr_fc,         \* line 325
    yref2          \* lines 352, 361: get_ref2(res2)

vars == <<pc, err, rsys, odesys, cstr, init_c, pars, res, k, exprs, exprs0, sol,
          exprs2, exprs2_0, cb, ref_arg, yref, cstr2, extra2, renamed_pars, res2,
          ref2, fr_fc, yref2>>

\* the code cells in the order they run
Cells == <<"rsys", "odesys", "cstr", "integrate", "exprs", "exprs0", "sol",
           "exprs2", "exprs2_0", "lambdify", "yref", "cstr2", "res2", "fr_fc",
           "assert", "done">>

Pos(c) == Index(Cells, c)
\* cell c has run without raising
Ran(c) == Pos(pc) > Pos(c)
NextCell(c) == Cells[Pos(c) + 1]

\* the keys of the parameter dict of line 95
ParKeys == {"k", "f", "phi_A", "phi_B"}

Init ==
    /\ pc = "rsys"
    /\ err = ""
    /\ rsys = ReactionSystemFromString("", <<>>)
    /\ odesys = NoSys
    /\ cstr = NoSys
    /\ init_c = <<>>
    /\ pars = <<>>
    /\ res = NoResult
    /\ k = Symbol("k")
    /\ exprs = <<>>
    /\ exprs0 = <<>>
    /\ sol = [u1v |-> Num(0), u2v |-> Num(0)]
    /\ exprs2 = <<>>
    /\ exprs2_0 = <<>>
    /\ cb = <<>>
    /\ ref_arg = None
    /\ yref = <<>>
    /\ cstr2 = NoSys
    /\ extra2 = [fr |-> "", fc |-> <<>>]
    /\ renamed_pars = <<>>
    /\ res2 = NoResult
    /\ ref2 = <<>>
    /\ fr_fc = [fr |-> "", fc |-> <<>>]
    /\ yref2 = <<>>

At(c) == pc = c /\ err = ""

\* line 35: rsys = ReactionSystem.from_string("A -> B; 'k'", ...)
Cell_rsys ==
    /\ At("rsys")
    /\ \E name \in RateNames, order \in SpeciesOrders :
          rsys' = ReactionSystemFromString(name, order)
    /\ pc' = NextCell(pc)
    /\ UNCHANGED <<err, odesys, cstr, init_c, pars, res, k, exprs, exprs0, sol,
                   exprs2, exprs2_0, cb, ref_arg, yref, cstr2, extra2, renamed_pars,
                   res2, ref2, fr_fc, yref2>>

\* line 45: odesys, extra = get_odesys(rsys, include_params=False)
Cell_odesys ==
    /\ At("odesys")
    /\ \E r \in {get_odesys(rsys, FALSE)} :
           /\ err' = r.err
           /\ odesys' = r.sys
           /\ pc' = IF r.err = "" THEN NextCell(pc) ELSE pc
    /\ UNCHANGED <<rsys, cstr, init_c, pars, res, k, exprs, exprs0, sol,
                   exprs2, exprs2_0, cb, ref_arg, yref, cstr2, extra2, renamed_pars,
                   res2, ref2, fr_fc, yref2>>

\* lines 62-75: the Symbols and cstr = SymbolicSys(...)
Cell_cstr ==
    /\ At("cstr")
    /\ k' = Symbol("k")
    /\ cstr' = ManualCstr(odesys)
    /\ pc' = NextCell(pc)
    /\ UNCHANGED <<err, rsys, odesys, init_c, pars, res, exprs, exprs0, sol,
                   exprs2, exprs2_0, cb, ref_arg, yref, cstr2, extra2, renamed_pars,
                   res2, ref2, fr_fc, yref2>>

\* the parameter dicts tried for line 95: every key of the notebook's dict,
\* or all but one
ParDicts == UNION {[ks -> RateVals \cup ConcVals] : ks \in {ParKeys} \cup {ParKeys \ {x} : x \in ParKeys}}

ParsOK(p) ==
    /\ \A x \in DOMAIN p \cap {"k", "f"} : p[x] \in RateVals
    /\ \A x \in DOMAIN p \cap {"phi_A", "phi_B"} : p[x] \in ConcVals

\* lines 95-96: init_c, pars = {...}, {...}; res = cstr.integrate(10, init_c, pars)
Cell_integrate ==
    /\ At("integrate")
    /\ \E c \in [Species -> ConcVals], p \in {q \in ParDicts : ParsOK(q)} :
          /\ init_c' = c
          /\ pars' = p
          /\ res' = integrate(cstr, MaxTime, c, p)
    /\ err' = res'.err
    /\ pc' = IF res'.err = "" THEN NextCell(pc) ELSE pc
    /\ UNCHANGED <<rsys, odesys, cstr, k, exprs, exprs0, sol,
                   exprs2, exprs2_0, cb, ref_arg, yref, cstr2, extra2, renamed_pars,
                   res2, ref2, fr_fc, yref2>>

\* lines 123-128: k = cstr.params[0]; exprs = [...]
Cell_exprs ==
    /\ At("exprs")
    /\ k' = cstr.params[1]
    /\ exprs' = Exprs(k')
    /\ pc' = NextCell(pc)
    /\ UNCHANGED <<err, rsys, odesys, cstr, init_c, pars, res, exprs0, sol,
                   exprs2, exprs2_0, cb, ref_arg, yref, cstr2, extra2, renamed_pars,
                   res2, ref2, fr_fc, yref2>>

\* line 139: exprs0 = [expr.subs(t, 0) for expr in exprs]
Cell_exprs0 ==
    /\ At("exprs0")
    /\ exprs0' = SubsT0(exprs)
    /\ pc' = NextCell(pc)
    /\ UNCHANGED <<err, rsys, odesys, cstr, init_c, pars, res, k, exprs, sol,
                   exprs2, exprs2_0, cb, ref_arg, yref, cstr2, extra2, renamed_pars,
                   res2, ref2, fr_fc, yref2>>

\* line 149: sol = solve([...], (c1, c2))
Cell_sol ==
    /\ At("sol")
    /\ sol' = SolveConstants(exprs0)
    /\ pc' = NextCell(pc)
    /\ UNCHANGED <<err, rsys, odesys, cstr, init_c, pars, res, k, exprs, exprs0,
                   exprs2, exprs2_0, cb, ref_arg, yref, cstr2, extra2, renamed_pars,
                   res2, ref2, fr_fc, yref2>>

\* line 159: exprs2 = [expr.subs(sol) for expr in exprs]
Cell_exprs2 ==
    /\ At("exprs2")
    /\ exprs2' = SubsSol(exprs, sol)
    /\ pc' = NextCell(pc)
    /\ UNCHANGED <<err, rsys, odesys, cstr, init_c, pars, res, k, exprs, exprs0, sol,
                   exprs2_0, cb, ref_arg, yref, cstr2, extra2, renamed_pars,
                   res2, ref2, fr_fc, yref2>>

\* line 191: exprs2_0 = [expr.subs(t, 0).simplify() for expr in exprs2]
Cell_exprs2_0 ==
    /\ At("exprs2_0")
    /\ exprs2_0' = SimplifyT0(exprs2)
    /\ pc' = NextCell(pc)
    /\ UNCHANGED <<err, rsys, odesys, cstr, init_c, pars, res, k, exprs, exprs0, sol,
                   exprs2, cb, ref_arg, yref, cstr2, extra2, renamed_pars,
                   res2, ref2, fr_fc, yref2>>

\* lines 201-203: _cb = lambdify([t, IA, IB, k, f, fc_A, fc_B], exprs2); a
\* function with two arguments of one name is a SyntaxError
Cell_lambdify ==
    /\ At("lambdify")
    /\ LET args == CbArgs(k)
       IN  IF NoDuplicates(args)
           THEN cb' = args /\ err' = "" /\ pc' = NextCell(pc)
           ELSE cb' = cb /\ err' = "SyntaxError" /\ pc' = pc
    /\ UNCHANGED <<rsys, odesys, cstr, init_c, pars, res, k, exprs, exprs0, sol,
                   exprs2, exprs2_0, ref_arg, yref, cstr2, extra2, renamed_pars,
                   res2, ref2, fr_fc, yref2>>

\* the explicit parameters arguments tried for get_ref: the dict pars, the
\* empty dict, and pars without one of its keys
RefArgs(p) ==
    {Given(p), Given(<<>>)}
        \cup {Given([x \in DOMAIN p \ {y} |-> p[x]]) : y \in DOMAIN p}

\* get_ref(res, parameters) called with an explicit parameters argument,
\* once everything get_ref reads is defined (the notebook makes such a call
\* at line 291)
Call_get_ref ==
    /\ At("yref")
    /\ \E a \in RefArgs(pars) :
          /\ ref_arg' = a
          /\ \E r \in {get_ref(cb, exprs2, res, a)} :
                 /\ yref' = r.y
                 /\ err' = r.err
    /\ UNCHANGED <<pc, rsys, odesys, cstr, init_c, pars, res, k, exprs, exprs0, sol,
                   exprs2, exprs2_0, cb, cstr2, extra2, renamed_pars,
                   res2, ref2, fr_fc, yref2>>

\* line 226: yref = get_ref(res)
Cell_yref ==
    /\ At("yref")
    /\ ref_arg' = None
    /\ \E r \in {get_ref(cb, exprs2, res, None)} :
           /\ yref' = r.y
           /\ err' = r.err
           /\ pc' = IF r.err = "" THEN NextCell(pc) ELSE pc
    /\ UNCHANGED <<rsys, odesys, cstr, init_c, pars, res, k, exprs, exprs0, sol,
                   exprs2, exprs2_0, cb, cstr2, extra2, renamed_pars,
                   res2, ref2, fr_fc, yref2>>

\* line 263: cstr2, extra2 = get_odesys(rsys, include_params=False, cstr=True)
Cell_cstr2 ==
    /\ At("cstr2")
    /\ \E r \in {get_odesys(rsys, TRUE)} :
           /\ cstr2' = r.sys
           /\ extra2' = r.extra
           /\ err' = r.err
           /\ pc' = IF r.err = "" THEN NextCell(pc) ELSE pc
    /\ UNCHANGED <<rsys, odesys, cstr, init_c, pars, res, k, exprs, exprs0, sol,
                   exprs2, exprs2_0, cb, ref_arg, yref, renamed_pars,
                   res2, ref2, fr_fc, yref2>>

\* renamed_pars = {'k': pars['k'], 'fc_A': pars['phi_A'], 'fc_B': pars['phi_B'],
\*                 'feedratio': pars['f']}
RenamedPars(p) ==
    [n \in {"k", "fc_A", "fc_B", "feedratio"} |->
        CASE n = "k" -> p["k"]
          [] n = "fc_A" -> p["phi_A"]
          [] n = "fc_B" -> p["phi_B"]
          [] n = "feedratio" -> p["f"]]

\* lines 289-291: renamed_pars = {...}; res2 = cstr2.integrate(10, init_c,
\* renamed_pars); ref2 = get_ref(res2, pars)
Cell_res2 ==
    /\ At("res2")
    /\ IF ~(ParKeys \subseteq DOMAIN pars)
       THEN /\ err' = "KeyError"
            /\ UNCHANGED <<renamed_pars, res2, ref2, pc>>
       ELSE /\ renamed_pars' = RenamedPars(pars)
            /\ res2' = integrate(cstr2, MaxTime, init_c, renamed_pars')
            /\ IF res2'.err # ""
               THEN err' = res2'.err /\ UNCHANGED <<ref2, pc>>
               ELSE \E r \in {get_ref(cb, exprs2, res2', Given(pars))} :
                        /\ ref2' = r.y
                        /\ err' = r.err
                        /\ pc' = IF r.err = "" THEN NextCell(pc) ELSE pc
    /\ UNCHANGED <<rsys, odesys, cstr, init_c, pars, res, k, exprs, exprs0, sol,
                   exprs2, exprs2_0, cb, ref_arg, yref, cstr2, extra2, fr_fc, yref2>>

\* line 325: fr, fc = extra2['cstr_fr_fc']
Cell_fr_fc ==
    /\ At("fr_fc")
    /\ fr_fc' = extra2
    /\ pc' = NextCell(pc)
    /\ UNCHANGED <<err, rsys, odesys, cstr, init_c, pars, res, k, exprs, exprs0, sol,
                   exprs2, exprs2_0, cb, ref_arg, yref, cstr2, extra2, renamed_pars,
                   res2, ref2, yref2>>

\* lines 352, 361: get_ref2(res2), compared with res2.yout
Cell_assert ==
    /\ At("assert")
    /\ \E r \in {get_ref2(res2, fr_fc.fr, fr_fc.fc)} :
           /\ yref2' = r.y
           /\ err' = IF r.err # "" THEN r.err
                     ELSE IF \E j \in DOMAIN r.y : \E i \in DOMAIN r.y[j] : ~r.y[j][i].fin
                     THEN "AssertionError" ELSE ""
           /\ pc' = IF err' = "" THEN NextCell(pc) ELSE pc
    /\ UNCHANGED <<rsys, odesys, cstr, init_c, pars, res, k, exprs, exprs0, sol,
                   exprs2, exprs2_0, cb, ref_arg, yref, cstr2, extra2, renamed_pars,
                   res2, ref2, fr_fc>>

Next ==
    \/ Cell_rsys
    \/ Cell_odesys
    \/ Cell_cstr
    \/ Cell_integrate
    \/ Cell_exprs
    \/ Cell_exprs0
    \/ Cell_sol
    \/ Cell_exprs2
    \/ Cell_exprs2_0
    \/ Cell_lambdify
    \/ Call_get_ref
    \/ Cell_yref
    \/ Cell_cstr2
    \/ Cell_res2
    \/ Cell_fr_fc
    \/ Cell_assert

Spec == Init /\ [][Next]_vars

\* ----------------------------------------------------- checking helpers
\* the Symbols and the dependent variables an expression mentions
RECURSIVE Syms(_)
Syms(x) ==
    CASE x.op = "sym" -> {x.name}
      [] x.op \in {"num", "dep"} -> {}
      [] OTHER -> UNION {Syms(x.args[i]) : i \in DOMAIN x.args}

RECURSIVE Deps(_)
Deps(x) ==
    CASE x.op = "dep" -> {x.name}
      [] x.op \in {"num", "sym"} -> {}
      [] OTHER -> UNION {Deps(x.args[i]) : i \in DOMAIN x.args}

\* Symbols valued by a parameter dict, concentrations by conc (integers)
Env(p, conc) == [sym |-> p, dep |-> [n \in DOMAIN conc |-> VInt(conc[n])]]

\* the closed form's Symbols at time x: the parameters of pars and the
\* initial concentrations of init_c
FormEnv(x) ==
    [sym |-> [n \in {"t", "I_A", "I_B"} \cup DOMAIN pars |->
                 CASE n = "t" -> x
                   [] n = "I_A" -> init_c["A"]
                   [] n = "I_B" -> init_c["B"]
                   [] OTHER -> pars[n]],
     dep |-> <<>>]

FeedKey(s) == IF s = "A" THEN "phi_A" ELSE "phi_B"
\* the position of species s in the closed form: exprs is (A, B)
FormPos(s) == IF s = "A" THEN 1 ELSE 2

\* --------------------------------------------------------------- claims

\* C1: every right-hand side of the manually augmented system is the
\* reaction's own expression minus f*C plus f*C_feed, with C the species'
\* own concentration, f the one feed ratio and C_feed the species' own feed
\* concentration (phi_A for A, phi_B for B), and mentions no other species'
\* feed concentration or concentration variable.
C1_AugmentedRhs ==
    pc = "exprs" =>
        /\ Len(cstr.exprs) = Len(odesys.exprs)
        /\ \A i \in DOMAIN odesys.exprs :
              LET s == odesys.names[i]
                  e == Env(pars, init_c)
              IN  /\ Eval(cstr.exprs[i], e) =
                        VAdd(VSub(Eval(odesys.exprs[i], e),
                                  VMul(VInt(pars["f"]), VInt(init_c[s]))),
                             VMul(VInt(pars["f"]), VInt(pars[FeedKey(s)])))
                  /\ Syms(cstr.exprs[i]) = Syms(odesys.exprs[i]) \cup {"f", FeedKey(s)}
                  /\ Deps(cstr.exprs[i]) = Deps(odesys.exprs[i]) \cup {s}

C1_Witness ==
    /\ pc = "exprs"
    /\ pars["f"] # 0
    /\ pars["phi_A"] # pars["phi_B"]
    /\ init_c["A"] # init_c["B"]

\* C2: the augmented parameter list is the reaction system's parameters in
\* their order, then one feed ratio and one feed concentration per species
\* in a fixed order; the names list names the parameters position by
\* position; in built-in mode the extra dictionary tells which name is the
\* feed ratio and which each species' feed concentration.
C2_ParameterList ==
    /\ Ran("cstr") =>
          LET n0 == Len(odesys.params)
          IN  /\ SubSeq(cstr.params, 1, n0) = odesys.params
              /\ SubSeq(cstr.param_names, 1, n0) = odesys.param_names
              /\ Len(cstr.params) = n0 + 1 + Cardinality(Range(odesys.names))
              /\ SubSeq(cstr.param_names, n0 + 1, Len(cstr.param_names))
                    = <<"f", "phi_A", "phi_B">>
              /\ Len(cstr.param_names) = Len(cstr.params)
              /\ \A i \in DOMAIN cstr.params : cstr.params[i].name = cstr.param_names[i]
    /\ Ran("fr_fc") =>
          LET n0 == Len(odesys.params)
              tail == SubSeq(cstr2.param_names, n0 + 1, Len(cstr2.param_names))
          IN  /\ SubSeq(cstr2.param_names, 1, n0) = odesys.param_names
              /\ Len(tail) = 1 + Cardinality(Range(cstr2.names))
              /\ NoDuplicates(tail)
              /\ Range(tail) = {fr_fc.fr} \cup {fr_fc.fc[s] : s \in Range(cstr2.names)}
              /\ \A i \in DOMAIN cstr2.params : cstr2.params[i].name = cstr2.param_names[i]

C2_Witness ==
    /\ Ran("fr_fc")
    /\ odesys.names[1] = "B"
    /\ Len(cstr.param_names) = 4

\* C3: with the rate constant named k, the manually augmented system and the
\* built-in CSTR mode have the same species and, once the parameters are
\* renamed (k->k, f->feedratio, phi_A->fc_A, phi_B->fc_B), the same
\* right-hand sides, and both integrations start from the same row.
C3_ManualEqualsBuiltin ==
    (pc = "fr_fc" /\ rsys.param = "k") =>
        /\ cstr.names = cstr2.names
        /\ Len(cstr.exprs) = Len(cstr2.exprs)
        /\ \A i \in DOMAIN cstr2.exprs :
              Eval(cstr.exprs[i], Env(pars, init_c))
                  = Eval(cstr2.exprs[i], Env(renamed_pars, init_c))
        /\ res.yout0 = res2.yout0
        /\ res.xout = res2.xout

C3_Witness ==
    /\ pc = "fr_fc"
    /\ rsys.param = "k"
    /\ pars["f"] # 0
    /\ pars["k"] # 0
    /\ pars["phi_A"] # pars["phi_B"]
    /\ init_c["A"] # init_c["B"]

\* the closed form of species s at time x, and its time derivative
FormAt(s, x) == Eval(exprs2[FormPos(s)], FormEnv(x))
FormDtAt(s, x) == Eval(Diff(exprs2[FormPos(s)], "t"), FormEnv(x))

\* the reference trajectory y has a finite entry for every time point and species
AllFinite(y) == \A j \in DOMAIN y : \A i \in DOMAIN y[j] : y[j][i].fin

\* the reference trajectory y (of result) is the closed form, column by
\* species name; it is finite, starts at the integration's first row and
\* satisfies the equations of sys with parameters p at every time point
SolvesOde(y, result, sys, p) ==
    /\ Len(y) = Len(result.xout)
    /\ \A j \in DOMAIN y :
          \E x \in {result.xout[j]} :
          \E a \in {FormAt("A", x)}, b \in {FormAt("B", x)} :
             LET env == [sym |-> p, dep |-> [n \in Species |-> IF n = "A" THEN a ELSE b]]
             IN  /\ Len(y[j]) = Len(result.odesys.names)
                 /\ a.fin /\ b.fin
                 /\ \A i \in DOMAIN y[j] :
                       LET s == result.odesys.names[i]
                       IN  /\ y[j][i] = IF s = "A" THEN a ELSE b
                           /\ FormDtAt(s, x) = Eval(sys.exprs[Index(sys.names, s)], env)
                           /\ x = 0 => y[j][i] = VInt(result.yout0[i])

\* the last get_ref(res, ...) call was given the system's own parameters
RefArgValid == ref_arg = None \/ ref_arg = Given(pars)

\* C4 as stated: for every k >= 0 and f >= 0, k = f = 0 included, the
\* analytic reference is a trajectory of finite values that solves the
\* augmented initial value problem, hence agrees with the integrator.
C4_AgreesForAllRates ==
    /\ (pc = "yref" /\ err # "" /\ RefArgValid /\ pars["k"] >= 0 /\ pars["f"] >= 0)
          => FALSE
    /\ (pc = "cstr2" /\ RefArgValid /\ pars["k"] >= 0 /\ pars["f"] >= 0)
          => SolvesOde(yref, res, cstr, pars)

\* C4 as amended: for k >= 0 and f >= 0 with f + k > 0 the analytic
\* reference (get_ref for both integrations, get_ref2 for the built-in
\* one) is finite at every output time point, starts at the initial
\* concentrations and satisfies dA/dt = -k*A - f*A + f*fc_A,
\* dB/dt = k*A - f*B + f*fc_B there.
C4_AgreesForPositiveSum ==
    /\ (pc = "yref" /\ err # "" /\ RefArgValid /\ pars["k"] >= 0 /\ pars["f"] >= 0)
          => pars["f"] + pars["k"] = 0
    /\ (pc = "yref" /\ err = "" /\ ref_arg = Given(pars)
           /\ pars["k"] >= 0 /\ pars["f"] >= 0 /\ pars["f"] + pars["k"] > 0)
          => SolvesOde(yref, res, cstr, pars)
    /\ (pc = "cstr2" /\ RefArgValid /\ pars["k"] >= 0 /\ pars["f"] >= 0
           /\ pars["f"] + pars["k"] > 0)
          => SolvesOde(yref, res, cstr, pars)
    /\ (pc = "done" /\ pars["k"] >= 0 /\ pars["f"] >= 0 /\ pars["f"] + pars["k"] > 0)
          => /\ SolvesOde(ref2, res2, cstr2, renamed_pars)
             /\ SolvesOde(yref2, res2, cstr2, renamed_pars)

C4_Witness ==
    /\ pc = "done"
    /\ pars["k"] = 0
    /\ pars["f"] > 0
    /\ pars["phi_A"] # pars["phi_B"]
    /\ init_c["A"] # pars["phi_A"]
    /\ AllFinite(yref2)

\* C5: with f = 0 and k > 0 the augmented equations are the un-augmented
\* ones, and the closed form is A(t) = A0*exp(-k*t),
\* B(t) = B0 + A0*(1 - exp(-k*t)) whatever the feed concentrations are.
C5_NoFeedIsFirstOrderDecay ==
    (pc = "cstr2" /\ pars["f"] = 0 /\ pars["k"] > 0) =>
        /\ \A i \in DOMAIN cstr.exprs :
              Eval(cstr.exprs[i], Env(pars, init_c))
                  = Eval(odesys.exprs[i], Env(pars, init_c))
        /\ \A j \in DOMAIN yref :
              LET decay == VExpInt(0 - pars["k"] * res.xout[j])
                  a == VMul(VInt(init_c["A"]), decay)
                  b == VAdd(VInt(init_c["B"]),
                            VMul(VInt(init_c["A"]), VSub(VInt(1), decay)))
              IN  \A i \in DOMAIN yref[j] :
                     yref[j][i] = IF res.odesys.names[i] = "A" THEN a ELSE b

C5_Witness ==
    /\ pc = "cstr2"
    /\ pars["f"] = 0
    /\ pars["k"] > 0
    /\ pars["phi_A"] # 0
    /\ pars["phi_B"] # pars["phi_A"]
    /\ init_c["A"] # 0
    /\ Len(yref) > 1

\* C9: with the integration constants solved for, the closed form meets
\* the initial conditions: whenever f + k # 0, exprs2 at t = 0 (as
\* substituted, and as simplified in exprs2_0) is (IA, IB), and its A
\* component is fc_A*f/(f+k) + (IA - fc_A*f/(f+k))*exp(-t*(f+k)).
C9_InitialConditions ==
    (pc = "lambdify" /\ k.name = "k" /\ pars["f"] + pars["k"] # 0) =>
        LET ia == VInt(init_c["A"])
            ib == VInt(init_c["B"])
            ainf == VRat(Rat(pars["phi_A"] * pars["f"], pars["f"] + pars["k"]))
        IN  /\ Eval(exprs2_0[1], FormEnv(0)) = ia
            /\ Eval(exprs2_0[2], FormEnv(0)) = ib
            /\ Eval(Subs(exprs2[1], "t", Num(0)), FormEnv(0)) = ia
            /\ Eval(Subs(exprs2[2], "t", Num(0)), FormEnv(0)) = ib
            /\ \A x \in 0 .. MaxTime :
                  Eval(exprs2[1], FormEnv(x)) =
                      VAdd(ainf, VMul(VSub(ia, ainf),
                                      VExpInt(0 - x * (pars["f"] + pars["k"]))))

C9_Witness ==
    /\ pc = "lambdify"
    /\ k.name = "k"
    /\ pars["f"] # 0
    /\ pars["k"] # 0
    /\ pars["f"] + pars["k"] # 0
    /\ pars["phi_A"] # 0
    /\ init_c["A"] # init_c["B"]

\* the reference trajectory y of result has one row per output time point
\* and one column per species, column i the closed form of species
\* names[i] started from the initial concentrations of A and B by name
ColumnsBySpecies(y, result) ==
    /\ Len(y) = Len(result.xout)
    /\ \A j \in DOMAIN y :
          /\ Len(y[j]) = Len(result.odesys.names)
          /\ \A i \in DOMAIN y[j] :
                y[j][i] = FormAt(result.odesys.names[i], result.xout[j])

\* C10: get_ref and get_ref2 return one row per output time point and one
\* column per species in the order of result.odesys.names ((A, B), or
\* (B, A) when the first species is 'B'), computed from the first-row
\* values of A and B looked up by name; so the first reference row is the
\* integration's first row, column by column.
C10_ReferenceColumns ==
    /\ pc = "cstr2" =>
          /\ ColumnsBySpecies(yref, res)
          /\ AllFinite(yref) => \A i \in DOMAIN yref[1] : yref[1][i] = VInt(res.yout0[i])
    /\ pc = "done" =>
          /\ ColumnsBySpecies(ref2, res2)
          /\ ColumnsBySpecies(yref2, res2)
          /\ \A i \in DOMAIN yref2[1] : yref2[1][i] = VInt(res2.yout0[i])

C10_Witness ==
    /\ pc = "done"
    /\ res2.odesys.names[1] = "B"
    /\ init_c["A"] # init_c["B"]
    /\ yref2[2][1] # yref2[2][2]
    /\ yref[2][1] # yref[2][2]

\* C8: the ODE system has one dependent variable per distinct substance of
\* the reaction system, before and after CSTR augmentation (manual and
\* built-in); augmentation keeps the species names and their order and
\* yields one equation per species.
C8_SpeciesCount ==
    LET nsub == Cardinality({rsys.reac, rsys.prod})
    IN  /\ Ran("odesys") =>
              /\ Len(odesys.dep) = nsub
              /\ Range(odesys.names) = {rsys.reac, rsys.prod}
        /\ Ran("cstr") =>
              /\ Len(cstr.dep) = nsub
              /\ Len(cstr.exprs) = nsub
              /\ cstr.names = odesys.names
              /\ cstr.dep = odesys.dep
        /\ Ran("cstr2") =>
              /\ Len(cstr2.dep) = nsub
              /\ Len(cstr2.exprs) = nsub
              /\ cstr2.names = odesys.names

C8_Witness ==
    /\ Ran("cstr2")
    /\ cstr.names = <<"B", "A">>
    /\ Len(cstr.dep) = 2

\* C6: a parameter mapping that lacks a declared parameter makes integrate
\* fail with IncompleteParameters, and a mapping given to the reference
\* evaluator get_ref that lacks a parameter it needs yields no trajectory.
C6_MissingParameterFails ==
    /\ (Ran("integrate") \/ (pc = "integrate" /\ err # "")) =>
          (~(Range(cstr.param_names) \subseteq DOMAIN pars)
              <=> (pc = "integrate" /\ err = "IncompleteParameters"))
    /\ (pc = "yref" /\ ref_arg.given /\ ~(ParKeys \subseteq DOMAIN ref_arg.map))
          => (err # "" /\ yref = <<>>)

\* C7: no augmented system is produced whose parameter names repeat a
\* name: a rate-constant name equal to a generated feed parameter name
\* stops the construction with DuplicateParameterName.
C7_NoDuplicateParameterNames ==
    /\ Ran("cstr") => NoDuplicates(cstr.param_names)
    /\ Ran("cstr2") => NoDuplicates(cstr2.param_names)
    /\ rsys.param \in {"f", "phi_A", "phi_B"} => ~Ran("cstr")

====
